---- MODULE Spec2Model ----
(***************************************************************************)
(* Credit-card fraud detection: the offline cleaner (preprocess.py), the   *)
(* trainer (model.py), the feature aligner prepare_features_from_raw       *)
(* (utils.py) and the prediction service (app.py).                         *)
(*                                                                         *)
(* Numbers.  Every cell of a data frame is a pair [n, d] that denotes the  *)
(* real number n / sqrt(d).  An unscaled value x is [x, 1].  The scaler is *)
(* kept as the exact sums it was fitted on (count N, sum S, sum of squares *)
(* Q), so that (x - mean) / std = (N*x - S) / sqrt(N*Q - S*S) is an exact  *)
(* pair of integers.  The four scaled columns are carried in eighths,      *)
(* because the Tukey fence q3 + 1.5 * iqr of integer amounts under linear  *)
(* quantile interpolation is a multiple of 1/8.  Floating-point rounding   *)
(* is not modelled.                                                        *)
(***************************************************************************)
EXTENDS Integers, Sequences, FiniteSets, TLC

VARIABLES
    transactions_csv,    \* dataset/transactions.csv: the raw rows
    files,               \* which of the persisted files exist on disk
    clean_csv,           \* dataset/transactions_clean.csv: [columns, rows]
    train_columns_json,  \* models/train_columns.json
    scaler_pkl,          \* models/transaction_scaler.pkl
    model_files,         \* models/lr_fraud_model.joblib, rf_fraud_model.joblib
    runs,                \* batch runs and service starts so far
    serving,             \* the prediction service process is up
    TRAIN_COLUMNS,       \* utils.TRAIN_COLUMNS, loaded at import
    SCALER,              \* utils.SCALER, loaded at import
    MODELS,              \* app.MODELS, loaded at import
    clock,               \* the wall clock, in hours
    record,              \* the dict handed to prepare_features_from_raw
    first_call,          \* what the first call on `record` returned or raised
    last_call,           \* what the latest call on `record` returned or raised
    ncalls,              \* calls made on `record` (two are compared)
    req,                 \* per request: the HTTP request
    pc,                  \* per request: position in predict()
    loc,                 \* per request: predict()'s local variables
    resp                 \* per request: the HTTP response

vars == <<transactions_csv, files, clean_csv, train_columns_json, scaler_pkl,
          model_files, runs, serving, TRAIN_COLUMNS, SCALER, MODELS, clock,
          record, first_call, last_call, ncalls, req, pc, loc, resp>>

diskVars == <<transactions_csv, files, clean_csv, train_columns_json,
              scaler_pkl, model_files, runs>>
sharedVars == <<TRAIN_COLUMNS, SCALER, MODELS>>
callVars == <<record, first_call, last_call, ncalls>>
reqVars == <<req, pc, loc, resp>>

(***************************************************************************)
(* Bounds of the model.                                                    *)
(***************************************************************************)
MaxRows == 4        \* rows of a raw dataset
MaxRuns == 4        \* cleaner runs, trainer runs and service starts
MaxClock == 2       \* hours the wall clock advances
MaxRequests == 2    \* requests in flight

(***************************************************************************)
(* Sequences and values.                                                   *)
(***************************************************************************)
Range(s) == {s[i] : i \in 1..Len(s)}

Max2(a, b) == IF a >= b THEN a ELSE b
Min2(a, b) == IF a <= b THEN a ELSE b

RECURSIVE SumOver(_, _)
SumOver(f, S) ==
    IF S = {} THEN 0
    ELSE LET x == CHOOSE y \in S : TRUE IN f[x] + SumOver(f, S \ {x})

\* A JSON / CSV value: a number, a string or null, in one shape.
Num(x) == [t |-> "num", n |-> x, s |-> ""]
Str(x) == [t |-> "str", n |-> 0, s |-> x]
Null == [t |-> "null", n |-> 0, s |-> ""]

\* A data-frame cell: n / sqrt(d).
Cell(x, y) == [n |-> x, d |-> y]
Zero == Cell(0, 1)
One == Cell(1, 1)

\* Strings that Python's float() and int() accept, with their values.
NumberLiterals == {<<"1", 1>>, <<"350", 350>>}

\* float(v): a number is itself, a numeric string is parsed, anything else
\* raises (ValueError for a string, TypeError for None).
PyFloat(v) ==
    IF v.t = "num" THEN [ok |-> TRUE, n |-> v.n]
    ELSE IF v.t = "str" /\ \E p \in NumberLiterals : p[1] = v.s
    THEN [ok |-> TRUE, n |-> (CHOOSE p \in NumberLiterals : p[1] = v.s)[2]]
    ELSE [ok |-> FALSE, n |-> 0]

\* int(v): as float(v) on the whole numbers of this model.
PyInt(v) == PyFloat(v)

\* str(v): never raises.
PyStr(v) ==
    IF v.t = "str" THEN v.s
    ELSE IF v.t = "num" THEN ToString(v.n)
    ELSE "None"

\* The categorical values of the model, each list in the sorted order
\* get_dummies gives its columns.
Vocab ==
    [merchant |-> <<"ShopSmart", "TechWorld">>,
     category |-> <<"Electronics", "Food">>,
     location |-> <<"Chicago", "New York">>,
     device |-> <<"Mobile", "POS">>]

\* Timestamps the model knows, with the hour and the day pandas parses.
Timestamps ==
    << [s |-> "2025-10-10 14:30:00", hour |-> 14, day |-> 10],
       [s |-> "2025-10-10T14:30:00", hour |-> 14, day |-> 10],
       [s |-> "2025-10-11 09:15:00", hour |-> 9, day |-> 11],
       [s |-> "2025-10-31 23:59:00", hour |-> 23, day |-> 31] >>

\* pd.to_datetime(v): a known timestamp string parses; any other string
\* raises; None comes back as None, whose .hour raises at line 32.
to_datetime(v) ==
    IF v.t = "str" /\ \E i \in 1..Len(Timestamps) : Timestamps[i].s = v.s
    THEN LET i == CHOOSE j \in 1..Len(Timestamps) : Timestamps[j].s = v.s
         IN [ok |-> TRUE, hour |-> Timestamps[i].hour, day |-> Timestamps[i].day]
    ELSE [ok |-> FALSE, hour |-> 0, day |-> 0]

\* datetime.now() at wall-clock hour c: the clock starts on 2025-10-10 at 22h.
now(c) == [ok |-> TRUE, hour |-> (22 + c) % 24, day |-> 10 + ((22 + c) \div 24)]

(***************************************************************************)
(* utils.py: the feature aligner.                                          *)
(***************************************************************************)
Fields ==
    <<"amount", "category", "merchant", "timestamp", "location", "device",
      "card_present", "cvv_present", "card_bin", "ip_address",
      "chargeback_history">>

\* record.get(f, default)
Get(rec, f, default) == IF f \in DOMAIN rec THEN rec[f] ELSE default

\* v converted, or the default when the conversion raises.
OrDefault(conv) == IF conv.ok THEN conv.n ELSE 0

\* A variant of Extract that absorbs a failed conversion into the default;
\* C3 tells it from Extract.
ExtractLenient(rec, c) ==
    LET timestamp == IF "timestamp" \in DOMAIN rec
                     THEN to_datetime(rec["timestamp"]) ELSE now(c)
    IN [raised |-> IF ~timestamp.ok THEN "timestamp" ELSE "",
        amount |-> OrDefault(PyFloat(Get(rec, "amount", Num(0)))),
        category |-> PyStr(Get(rec, "category", Str("Other"))),
        merchant |-> PyStr(Get(rec, "merchant", Str("Unknown"))),
        location |-> PyStr(Get(rec, "location", Str("Unknown"))),
        device |-> PyStr(Get(rec, "device", Str("Unknown"))),
        card_present |-> OrDefault(PyInt(Get(rec, "card_present", Num(0)))),
        cvv_present |-> OrDefault(PyInt(Get(rec, "cvv_present", Num(0)))),
        card_bin |-> OrDefault(PyInt(Get(rec, "card_bin", Num(0)))),
        ip_address |-> PyStr(Get(rec, "ip_address", Str("0.0.0.0"))),
        chargeback_history |->
            OrDefault(PyFloat(Get(rec, "chargeback_history", Num(0)))),
        transaction_hour |-> timestamp.hour,
        transaction_day |-> timestamp.day]

\* Lines 19-33: the fields with their defaults, converted.  `raised` names
\* the first conversion that raises, in the order the lines run ("" if none).
Extract(rec, c) ==
    LET amount == PyFloat(Get(rec, "amount", Num(0)))
        timestamp == IF "timestamp" \in DOMAIN rec
                     THEN to_datetime(rec["timestamp"]) ELSE now(c)
        card_present == PyInt(Get(rec, "card_present", Num(0)))
        cvv_present == PyInt(Get(rec, "cvv_present", Num(0)))
        card_bin == PyInt(Get(rec, "card_bin", Num(0)))
        chargeback_history == PyFloat(Get(rec, "chargeback_history", Num(0)))
    IN [raised |->
            IF ~amount.ok THEN "amount"
            ELSE IF ~timestamp.ok /\ rec["timestamp"].t = "str" THEN "timestamp"
            ELSE IF ~card_present.ok THEN "card_present"
            ELSE IF ~cvv_present.ok THEN "cvv_present"
            ELSE IF ~card_bin.ok THEN "card_bin"
            ELSE IF ~chargeback_history.ok THEN "chargeback_history"
            ELSE IF ~timestamp.ok THEN "timestamp"
            ELSE "",
        amount |-> amount.n,
        category |-> PyStr(Get(rec, "category", Str("Other"))),
        merchant |-> PyStr(Get(rec, "merchant", Str("Unknown"))),
        location |-> PyStr(Get(rec, "location", Str("Unknown"))),
        device |-> PyStr(Get(rec, "device", Str("Unknown"))),
        card_present |-> card_present.n,
        cvv_present |-> cvv_present.n,
        card_bin |-> card_bin.n,
        ip_address |-> PyStr(Get(rec, "ip_address", Str("0.0.0.0"))),
        chargeback_history |-> chargeback_history.n,
        transaction_hour |-> timestamp.hour,
        transaction_day |-> timestamp.day]

\* Line 34.
HighAmountThreshold == 500
is_high_amount(amount) == IF amount > HighAmountThreshold THEN 1 ELSE 0

\* Line 35.
card_info_match(card_present, cvv_present) ==
    IF card_present # 0 /\ cvv_present # 0 THEN 1 ELSE 0

\* A Python dict: its keys in insertion order, and their values.
DictSet(row, k, v) ==
    IF k \in Range(row.keys)
    THEN [row EXCEPT !.val = [row.val EXCEPT ![k] = v]]
    ELSE [keys |-> Append(row.keys, k),
          val |-> [x \in Range(row.keys) \cup {k} |->
                      IF x = k THEN v ELSE row.val[x]]]

\* `if k in row: row[k] = v`
SetIfPresent(row, k, v) == IF k \in Range(row.keys) THEN DictSet(row, k, v) ELSE row

\* The elements of s at their first occurrence, in order.
FirstOccurrences(s) ==
    LET keep == {i \in 1..Len(s) : \A j \in 1..(i - 1) : s[j] # s[i]}
    IN [k \in 1..Cardinality(keep) |->
           s[CHOOSE i \in keep : Cardinality({j \in keep : j <= i}) = k]]

\* Line 38: row = {col: 0.0 for col in TRAIN_COLUMNS}
InitRow(cols) == [keys |-> FirstOccurrences(cols), val |-> [c \in Range(cols) |-> Zero]]

\* Lines 41-50.
FillNumeric(row, e) ==
    LET r1 == SetIfPresent(row, "amount", Cell(e.amount, 1))
        r2 == SetIfPresent(r1, "chargeback_history", Cell(e.chargeback_history, 1))
        r3 == SetIfPresent(r2, "transaction_hour", Cell(e.transaction_hour, 1))
        r4 == SetIfPresent(r3, "transaction_day", Cell(e.transaction_day, 1))
        r5 == SetIfPresent(r4, "is_high_amount", Cell(is_high_amount(e.amount), 1))
    IN SetIfPresent(r5, "card_info_match",
                    Cell(card_info_match(e.card_present, e.cvv_present), 1))

\* Lines 53-56.
FillBinary(row, e) ==
    SetIfPresent(SetIfPresent(row, "card_present", Cell(e.card_present, 1)),
                 "cvv_present", Cell(e.cvv_present, 1))

\* Line 65: f"{prefix}_{value}"
OneHotName(prefix, value) == prefix \o "_" \o value

\* Lines 59-67, in the dict literal's order.
SetOrFirst(row, prefix, value) ==
    LET mine == {k \in 1..Len(row.keys) :
                    \E w \in Range(Vocab[prefix]) :
                        row.keys[k] = OneHotName(prefix, w)}
    IN IF OneHotName(prefix, value) \in Range(row.keys)
       THEN DictSet(row, OneHotName(prefix, value), One)
       ELSE IF mine = {} THEN row
       ELSE DictSet(row, row.keys[CHOOSE k \in mine : \A j \in mine : k <= j], One)

\* A variant of FillOneHot that sets the field's first column for a value
\* the row has no column for; C2 tells it from FillOneHot.
FillOneHotFallback(row, e) ==
    LET r1 == SetOrFirst(row, "merchant", e.merchant)
        r2 == SetOrFirst(r1, "category", e.category)
        r3 == SetOrFirst(r2, "location", e.location)
    IN SetOrFirst(r3, "device", e.device)

FillOneHot(row, e) ==
    LET r1 == SetIfPresent(row, OneHotName("merchant", e.merchant), One)
        r2 == SetIfPresent(r1, OneHotName("category", e.category), One)
        r3 == SetIfPresent(r2, OneHotName("location", e.location), One)
    IN SetIfPresent(r3, OneHotName("device", e.device), One)

\* NaN: what pandas puts in a column the row has no key for.
NaN == Cell(0, 0)

\* Line 70: pd.DataFrame([row], columns=cols), one row.
DataFrame(row, cols) ==
    [columns |-> cols,
     row |-> [c \in Range(cols) |->
                 IF c \in Range(row.keys) THEN row.val[c] ELSE NaN]]

\* StandardScaler.transform of one value x (in eighths) of column c:
\* (x - mean) / scale, where a zero variance leaves the scale at 1.
Transform(scaler, c, x) ==
    LET var == scaler.N * scaler.Q[c] - scaler.S[c] * scaler.S[c]
    IN Cell(scaler.N * x - scaler.S[c],
            IF var = 0 THEN scaler.N * scaler.N ELSE var)

\* A variant of ScaleFrame that keeps only the scaled columns; C1 tells it
\* from ScaleFrame.
ScaleOnly(df, scaler) ==
    [raised |-> "",
     columns |-> scaler.feature_names_in_,
     row |-> [c \in Range(scaler.feature_names_in_) |->
                 Transform(scaler, c, 8 * df.row[c].n)]]

\* Lines 73-75: df_one[cols_to_scale] = SCALER.transform(df_one[cols_to_scale]).
\* Selecting a column the frame does not have raises KeyError.
ScaleFrame(df, scaler) ==
    IF ~scaler.has_feature_names
    THEN [raised |-> "", columns |-> df.columns, row |-> df.row]
    ELSE IF ~(Range(scaler.feature_names_in_) \subseteq Range(df.columns))
    THEN [raised |-> "KeyError", columns |-> <<>>, row |-> <<>>]
    ELSE [raised |-> "",
          columns |-> df.columns,
          row |-> [c \in Range(df.columns) |->
                      IF c \in Range(scaler.feature_names_in_)
                      THEN Transform(scaler, c, 8 * df.row[c].n)
                      ELSE df.row[c]]]

\* Lines 12-77.  Returns the frame, or what was raised.
prepare_features_from_raw(rec, c, cols, scaler) ==
    LET e == Extract(rec, c)
    IN IF e.raised # ""
       THEN [raised |-> e.raised, columns |-> <<>>, row |-> <<>>]
       ELSE ScaleFrame(
                DataFrame(FillOneHot(FillBinary(FillNumeric(InitRow(cols), e), e), e),
                          cols),
                scaler)

(***************************************************************************)
(* preprocess.py: the offline cleaner.                                     *)
(***************************************************************************)
\* The header of dataset/transactions.csv (line 10).
RawColumns ==
    <<"transaction_id", "amount", "timestamp", "merchant", "category",
      "location", "device", "card_present", "cvv_present",
      "chargeback_history", "ip_address", "notes", "is_fraud">>

\* Line 25: strip "$" and ",", then astype(float).
CurrencyStrings == {<<"$14.00", 14>>}
CleanAmount(v) ==
    IF v.t = "str" /\ \E p \in CurrencyStrings : p[1] = v.s
    THEN (CHOOSE p \in CurrencyStrings : p[1] = v.s)[2]
    ELSE PyFloat(v).n

\* Lines 28-29: x.str.strip()
Padded == {<<" Food ", "Food">>}
Strip(x) ==
    IF \E p \in Padded : p[1] = x THEN (CHOOSE p \in Padded : p[1] = x)[2] ELSE x

\* Lines 25-29 on one row.
CleanRow(r) ==
    [r EXCEPT !.amount = Num(CleanAmount(r.amount)),
              !.timestamp = Strip(r.timestamp),
              !.merchant = Strip(r.merchant),
              !.category = Strip(r.category),
              !.location = Strip(r.location),
              !.device = Strip(r.device),
              !.ip_address = Strip(r.ip_address),
              !.notes = Strip(r.notes)]

CleanFields(rows) == [i \in 1..Len(rows) |-> CleanRow(rows[i])]

\* Line 42: df.drop_duplicates(), which keeps each row's first occurrence.
drop_duplicates(rows) == FirstOccurrences(rows)

\* The k-th smallest (k from 0) of the values a[1..n].
Kth(a, k) ==
    CHOOSE v \in Range(a) :
        /\ Cardinality({i \in 1..Len(a) : a[i] < v}) <= k
        /\ k < Cardinality({i \in 1..Len(a) : a[i] <= v})

\* series.quantile(j / 4) with linear interpolation, times 4.
Quantile4(a, j) ==
    LET h == (Len(a) - 1) * j
        i == h \div 4
        r == h % 4
    IN IF r = 0 THEN 4 * Kth(a, i)
       ELSE 4 * Kth(a, i) + r * (Kth(a, i + 1) - Kth(a, i))

\* Lines 47-52 with k = 1.5: the fence <<lower, upper>>, times 8.
iqr_clip(a) ==
    LET q1 == Quantile4(a, 1)
        q3 == Quantile4(a, 3)
        iqr == q3 - q1
    IN <<2 * q1 - 3 * iqr, 2 * q3 + 3 * iqr>>

\* Line 55: series.clip(lower, upper) of amount x, in eighths.
Clip(x, fence) == Max2(fence[1], Min2(fence[2], 8 * x))

\* series.median(), times 2.
Median2(a) ==
    LET n == Len(a)
    IN IF n % 2 = 1 THEN 2 * Kth(a, n \div 2)
       ELSE Kth(a, n \div 2 - 1) + Kth(a, n \div 2)

\* Lines 25-55: the rows after cleaning and de-duplication, the amount
\* clipped and in eighths.
ClippedRows(raw) ==
    LET rows == drop_duplicates(CleanFields(raw))
        amounts == [i \in 1..Len(rows) |-> rows[i].amount.n]
        fence == iqr_clip(amounts)
    IN [i \in 1..Len(rows) |->
           [rows[i] EXCEPT !.amount = Num(Clip(rows[i].amount.n, fence))]]

\* Lines 58-62: the engineered features of row i.
Engineered(rows, i) ==
    LET ts == to_datetime(Str(rows[i].timestamp))
        amounts == [k \in 1..Len(rows) |-> rows[k].amount.n]
    IN [transaction_hour |-> ts.hour,
        transaction_day |-> ts.day,
        is_high_amount |-> IF 2 * rows[i].amount.n > Median2(amounts) THEN 1 ELSE 0,
        has_notes |-> IF rows[i].notes = "" THEN 0 ELSE 1,
        card_info_match |->
            IF rows[i].card_present = 1 /\ rows[i].cvv_present = 1 THEN 1 ELSE 0]

\* Line 65 and line 69.
cat_cols == <<"merchant", "category", "location", "device">>
numeric_cols ==
    <<"amount", "chargeback_history", "transaction_hour", "transaction_day">>

\* The values of column c that occur in the rows, sorted.
Observed(rows, c, sorted) ==
    LET Occurs(v) == \E i \in 1..Len(rows) : rows[i][c] = v
    IN SelectSeq(sorted, Occurs)

\* pd.get_dummies' column names for column c.
DummyNames(rows, c, sorted) ==
    LET o == Observed(rows, c, sorted)
    IN [k \in 1..Len(o) |-> OneHotName(c, o[k])]

\* Line 71: StandardScaler().fit on the four numeric columns, in eighths.
NumericValue(rows, i, c) ==
    IF c = "amount" THEN rows[i].amount.n
    ELSE IF c = "chargeback_history" THEN 8 * rows[i].chargeback_history
    ELSE IF c = "transaction_hour" THEN 8 * Engineered(rows, i).transaction_hour
    ELSE 8 * Engineered(rows, i).transaction_day

Fit(rows) ==
    [has_feature_names |-> TRUE,
     feature_names_in_ |-> numeric_cols,
     N |-> Len(rows),
     S |-> [c \in Range(numeric_cols) |->
               SumOver([i \in 1..Len(rows) |-> NumericValue(rows, i, c)],
                       1..Len(rows))],
     Q |-> [c \in Range(numeric_cols) |->
               SumOver([i \in 1..Len(rows) |->
                           NumericValue(rows, i, c) * NumericValue(rows, i, c)],
                       1..Len(rows))]]

\* Lines 58-62: the columns feature engineering appends.
engineered_cols ==
    <<"transaction_hour", "transaction_day", "is_high_amount", "has_notes",
      "card_info_match">>

\* Lines 78-89.
drop_cols ==
    <<"transaction_id", "user_id", "merchant_id", "auth_code", "card_pan",
      "card_expiry", "email", "phone", "notes", "ip_address">>

\* The columns left non-numeric after line 90: the timestamp strings.
non_numeric_cols == <<"timestamp">>

TimestampVocab == [i \in 1..Len(Timestamps) |-> Timestamps[i].s]

SortedValues(c) == IF c = "timestamp" THEN TimestampVocab ELSE Vocab[c]

\* pd.get_dummies(df, columns=cs): the other columns in their order, then
\* the dummy columns of each encoded column in turn.
RECURSIVE AllDummyNames(_, _)
AllDummyNames(rows, cs) ==
    IF cs = <<>> THEN <<>>
    ELSE DummyNames(rows, cs[1], SortedValues(cs[1]))
         \o AllDummyNames(rows, SubSeq(cs, 2, Len(cs)))

get_dummies(columns, rows, cs) ==
    LET Kept(c) == c \notin Range(cs)
    IN SelectSeq(columns, Kept) \o AllDummyNames(rows, cs)

\* df.drop(columns=cs)
Drop(columns, cs) ==
    LET Kept(c) == c \notin Range(cs)
    IN SelectSeq(columns, Kept)

\* Lines 58-99: the frame's columns after the second encoding.
FinalColumns(rows) ==
    get_dummies(
        Drop(get_dummies(RawColumns \o engineered_cols, rows, cat_cols), drop_cols),
        rows, non_numeric_cols)

\* The final frame's cell of row i in column col.
CleanCell(rows, i, col, scaler) ==
    IF col \in Range(numeric_cols)
    THEN Transform(scaler, col, NumericValue(rows, i, col))
    ELSE IF col \in {"card_present", "cvv_present", "is_fraud"}
    THEN Cell(rows[i][col], 1)
    ELSE IF col \in Range(engineered_cols)
    THEN Cell(Engineered(rows, i)[col], 1)
    ELSE IF \E c \in Range(cat_cols \o non_numeric_cols) :
                col = OneHotName(c, rows[i][c])
    THEN One
    ELSE Zero

\* Line 102: df.drop(columns=["is_fraud"]).columns.tolist()
TrainColumnsOf(columns) == Drop(columns, <<"is_fraud">>)

\* preprocess.py, the whole script, on the raw rows: what it persists.
Preprocess(raw) ==
    LET rows == ClippedRows(raw)
        scaler == Fit(rows)
        columns == FinalColumns(rows)
    IN [scaler |-> scaler,
        train_columns |-> TrainColumnsOf(columns),
        clean |-> [columns |-> columns,
                   rows |-> [i \in 1..Len(rows) |->
                                [k \in 1..Len(columns) |->
                                    CleanCell(rows, i, columns[k], scaler)]]]]

\* The rows the model draws raw datasets from.
RowPool ==
    << [transaction_id |-> 1, amount |-> Num(10),
        timestamp |-> "2025-10-10 14:30:00", merchant |-> "ShopSmart",
        category |-> "Food", location |-> "New York", device |-> "Mobile",
        card_present |-> 1, cvv_present |-> 1, chargeback_history |-> 1,
        ip_address |-> "192.168.1.45", notes |-> "", is_fraud |-> 0],
       [transaction_id |-> 2, amount |-> Num(12),
        timestamp |-> "2025-10-11 09:15:00", merchant |-> "TechWorld",
        category |-> "Electronics", location |-> "Chicago", device |-> "POS",
        card_present |-> 0, cvv_present |-> 1, chargeback_history |-> 0,
        ip_address |-> "10.0.0.7", notes |-> "gift", is_fraud |-> 0],
       [transaction_id |-> 3, amount |-> Str("$14.00"),
        timestamp |-> "2025-10-10 14:30:00", merchant |-> "ShopSmart",
        category |-> " Food ", location |-> "New York", device |-> "Mobile",
        card_present |-> 1, cvv_present |-> 0, chargeback_history |-> 0,
        ip_address |-> "192.168.1.45", notes |-> "", is_fraud |-> 0],
       [transaction_id |-> 4, amount |-> Num(600),
        timestamp |-> "2025-10-31 23:59:00", merchant |-> "TechWorld",
        category |-> "Electronics", location |-> "Chicago", device |-> "POS",
        card_present |-> 0, cvv_present |-> 0, chargeback_history |-> 3,
        ip_address |-> "10.0.0.9", notes |-> "", is_fraud |-> 1] >>

\* A raw dataset: up to MaxRows rows of the pool, repeats allowed.
DatasetOf(ix) == [i \in 1..Len(ix) |-> RowPool[ix[i]]]

Datasets ==
    {DatasetOf(ix) : ix \in
        {s \in UNION {[1..n -> 1..Len(RowPool)] : n \in 1..MaxRows} :
            \A i \in 1..(Len(s) - 1) : s[i] <= s[i + 1]}}

\* pd.read_csv's header: a repeated name gets ".k" appended.
ReadHeader(columns) ==
    [i \in 1..Len(columns) |->
        LET k == Cardinality({j \in 1..(i - 1) : columns[j] = columns[i]})
        IN IF k = 0 THEN columns[i] ELSE columns[i] \o "." \o ToString(k)]

read_csv(csv) == [columns |-> ReadHeader(csv.columns), rows |-> csv.rows]

(***************************************************************************)
(* model.py: the trainer.  The fit itself is the statistics library's: an  *)
(* artifact is the columns it was fitted on (feature_names_in_) and a      *)
(* decision function, here a bias the library settles on.                  *)
(***************************************************************************)
Biases == {20000, 499880}

\* Line 17: X = df.drop(columns=["is_fraud"])
XColumns(df) == Drop(df.columns, <<"is_fraud">>)

\* Lines 26-33: the fitted classifier.
Artifact(columns, b) == [feature_names_in_ |-> columns, bias |-> b]

(***************************************************************************)
(* The files on disk, and the processes that write and load them.          *)
(***************************************************************************)
NoFrame == [columns |-> <<>>, rows |-> <<>>]
NoScaler ==
    [has_feature_names |-> FALSE, feature_names_in_ |-> <<>>, N |-> 0,
     S |-> <<>>, Q |-> <<>>]
NoModels == [lr |-> Artifact(<<>>, 0), rf |-> Artifact(<<>>, 0)]

IdleRequests == [r \in 1..MaxRequests |-> "idle"]
NoLocals == [r \in 1..MaxRequests |-> <<>>]

\* Somebody replaces dataset/transactions.csv.
NewDataset(ds) ==
    /\ runs < MaxRuns
    /\ files # {}
    /\ ds # transactions_csv
    /\ transactions_csv' = ds
    /\ UNCHANGED <<files, clean_csv, train_columns_json, scaler_pkl,
                   model_files, runs, serving, sharedVars, clock, callVars,
                   reqVars>>

\* python preprocess.py
RunCleaner ==
    /\ runs < MaxRuns
    /\ LET out == Preprocess(transactions_csv)
       IN /\ scaler_pkl' = out.scaler
          /\ train_columns_json' = out.train_columns
          /\ clean_csv' = out.clean
    /\ files' = files \cup {"scaler", "train_columns", "clean_csv"}
    /\ runs' = runs + 1
    /\ UNCHANGED <<transactions_csv, model_files, serving, sharedVars, clock,
                   callVars, reqVars>>

\* python model.py: importing utils loads the registry and the scaler
\* (utils.py lines 9-10), line 14 reads the clean dataset.
RunTrainer ==
    /\ runs < MaxRuns
    /\ {"scaler", "train_columns", "clean_csv"} \subseteq files
    /\ \E bl \in Biases, br \in Biases :
           LET X == XColumns(read_csv(clean_csv))
           IN model_files' = [lr |-> Artifact(X, bl), rf |-> Artifact(X, br)]
    /\ files' = files \cup {"models"}
    /\ runs' = runs + 1
    /\ UNCHANGED <<transactions_csv, clean_csv, train_columns_json,
                   scaler_pkl, serving, sharedVars, clock, callVars, reqVars>>

\* python app.py: utils.py lines 9-10 and app.py lines 11-14, once.
StartService ==
    /\ runs < MaxRuns
    /\ ~serving
    /\ {"scaler", "train_columns", "models"} \subseteq files
    /\ TRAIN_COLUMNS' = train_columns_json
    /\ SCALER' = scaler_pkl
    /\ MODELS' = model_files
    /\ serving' = TRUE
    /\ runs' = runs + 1
    /\ UNCHANGED <<transactions_csv, files, clean_csv, train_columns_json,
                   scaler_pkl, model_files, clock, callVars, reqVars>>

\* The service process ends; what it had loaded is gone.
StopService ==
    /\ serving
    /\ serving' = FALSE
    /\ TRAIN_COLUMNS' = <<>>
    /\ SCALER' = NoScaler
    /\ MODELS' = NoModels
    /\ UNCHANGED <<diskVars, clock, callVars, reqVars>>

InitPipeline ==
    /\ transactions_csv \in Datasets
    /\ files = {}
    /\ clean_csv = NoFrame
    /\ train_columns_json = <<>>
    /\ scaler_pkl = NoScaler
    /\ model_files = NoModels
    /\ runs = 0
    /\ serving = FALSE
    /\ TRAIN_COLUMNS = <<>>
    /\ SCALER = NoScaler
    /\ MODELS = NoModels
    /\ clock = 0
    /\ record = <<>>
    /\ first_call = <<>>
    /\ last_call = <<>>
    /\ ncalls = 0
    /\ req = NoLocals
    /\ pc = IdleRequests
    /\ loc = NoLocals
    /\ resp = NoLocals

NextPipeline ==
    \/ \E ds \in Datasets : NewDataset(ds)
    \/ RunCleaner
    \/ RunTrainer
    \/ StartService
    \/ StopService

SpecPipeline == InitPipeline /\ [][NextPipeline]_vars

(***************************************************************************)
(* Calls of prepare_features_from_raw on one record, as model.py lines     *)
(* 68-81 and app.py line 63 make them, while the wall clock runs.          *)
(***************************************************************************)
MaxOdd == 2         \* fields of a record that depart from the base record

\* The values a field takes: the first is the base record's.
FieldValues ==
    [amount |-> <<Num(350), Num(900), Str("abc")>>,
     category |-> <<Str("Food"), Str("ZZZ")>>,
     merchant |-> <<Str("ShopSmart"), Str("ZZZNonexistent")>>,
     timestamp |-> <<Str("2025-10-10T14:30:00"), Str("not-a-date"), Null>>,
     location |-> <<Str("New York"), Str("Mars")>>,
     device |-> <<Str("Mobile"), Str("Fridge")>>,
     card_present |-> <<Num(1), Num(0), Str("yes")>>,
     cvv_present |-> <<Num(1), Num(0)>>,
     card_bin |-> <<Num(453212), Null>>,
     ip_address |-> <<Str("192.168.1.45"), Null>>,
     chargeback_history |-> <<Num(1), Str("1")>>]

\* The record of model.py lines 68-80.
BaseRecord == [f \in Range(Fields) |-> FieldValues[f][1]]

\* rec without field f, and rec with field f set to v.
Without(rec, f) == [g \in DOMAIN rec \ {f} |-> rec[g]]
With(rec, f, v) == [g \in DOMAIN rec \cup {f} |-> IF g = f THEN v ELSE rec[g]]

SmallSubsets(S, k) == {T \in SUBSET S : Cardinality(T) <= k}

\* The records got from recs by removing or resetting each field of O.
RECURSIVE Vary(_, _)
Vary(recs, O) ==
    IF O = {} THEN recs
    ELSE LET f == CHOOSE x \in O : TRUE
         IN Vary(UNION {{Without(r, f)}
                        \cup {With(r, f, v) : v \in Range(FieldValues[f])} :
                        r \in recs},
                 O \ {f})

\* The base record with a few fields removed or changed, the empty record,
\* and the records of a single field.
Records ==
    UNION {Vary({BaseRecord}, O) : O \in SmallSubsets(Range(Fields), MaxOdd)}
    \cup UNION {Vary({<<>>}, {f}) : f \in Range(Fields)}

\* Raw datasets a serving registry and scaler were made from (row numbers).
ServingDatasets == {DatasetOf(<<1, 2>>), DatasetOf(<<2, 4>>), DatasetOf(<<1, 2, 3, 4>>)}

\* The state a finished cleaner and trainer leave for the service to load.
Loaded(ds, bl, br) ==
    LET out == Preprocess(ds)
        X == XColumns(read_csv(out.clean))
    IN /\ transactions_csv = ds
       /\ files = {"scaler", "train_columns", "clean_csv", "models"}
       /\ clean_csv = out.clean
       /\ train_columns_json = out.train_columns
       /\ scaler_pkl = out.scaler
       /\ model_files = [lr |-> Artifact(X, bl), rf |-> Artifact(X, br)]
       /\ runs = MaxRuns
       /\ serving = TRUE
       /\ TRAIN_COLUMNS = out.train_columns
       /\ SCALER = out.scaler
       /\ MODELS = [lr |-> Artifact(X, bl), rf |-> Artifact(X, br)]

\* prepare_features_from_raw(record)
CallWith(result) ==
    /\ ncalls < 2
    /\ last_call' = result
    /\ first_call' = IF ncalls = 0 THEN result ELSE first_call
    /\ ncalls' = ncalls + 1
    /\ UNCHANGED <<record, diskVars, serving, sharedVars, clock, reqVars>>

\* A variant of Call that writes the default timestamp into the record; C7
\* tells it from Call.
CallRewritingRecord ==
    /\ ncalls < 2
    /\ last_call' = prepare_features_from_raw(record, clock, TRAIN_COLUMNS, SCALER)
    /\ first_call' = IF ncalls = 0 THEN last_call' ELSE first_call
    /\ ncalls' = ncalls + 1
    /\ record' = [f \in DOMAIN record \cup {"timestamp"} |->
                     IF f \in DOMAIN record THEN record[f]
                     ELSE Str("2025-10-10T14:30:00")]
    /\ UNCHANGED <<diskVars, serving, sharedVars, clock, reqVars>>

Call == CallWith(prepare_features_from_raw(record, clock, TRAIN_COLUMNS, SCALER))

\* An hour passes.
Tick ==
    /\ clock < MaxClock
    /\ clock' = clock + 1
    /\ UNCHANGED <<diskVars, serving, sharedVars, callVars, reqVars>>

InitAligner ==
    /\ \E ds \in ServingDatasets : Loaded(ds, 499880, 20000)
    /\ clock = 0
    /\ record \in Records
    /\ first_call = <<>>
    /\ last_call = <<>>
    /\ ncalls = 0
    /\ req = NoLocals
    /\ pc = IdleRequests
    /\ loc = NoLocals
    /\ resp = NoLocals

NextAligner == Call \/ Tick

SpecAligner == InitAligner /\ [][NextAligner]_vars

(***************************************************************************)
(* app.py: the prediction service.  A request is handled in the steps of   *)
(* predict(); requests in flight interleave step by step.                  *)
(***************************************************************************)
\* str.lower() on the model names of this model.
Lowered == {<<"LR", "lr">>, <<"Rf", "rf">>}
Lower(x) ==
    IF \E p \in Lowered : p[1] = x THEN (CHOOSE p \in Lowered : p[1] = x)[2] ELSE x

\* Line 52.
required == Fields

\* A request body: a JSON object (obj), nothing that parses as JSON, a
\* number, or a string or list; `names` are the required names a string
\* has as substrings or a list has as elements.
ObjectBody(o) == [kind |-> "object", obj |-> o, names |-> DOMAIN o]
OtherBody(k, ns) == [kind |-> k, obj |-> <<>>, names |-> ns]

\* The value of request.args.get("model"): a string, or None when absent.
ModelParams == {Null, Str(""), Str("lr"), Str("rf"), Str("LR"), Str("xgboost")}

NoResponse ==
    [status |-> 0, error |-> "", detail |-> "", missing |-> <<>>, model |-> "",
     input |-> <<>>, fraud_probability |-> 0, predicted_is_fraud |-> 0]

NoLocal ==
    [choice |-> "", data |-> OtherBody("none", {}), df |-> NoFrame,
     x_new |-> NoFrame, prob |-> 0, is_fraud |-> 0, calls |-> {}]

\* Line 64: model.predict_proba(x_new)[0][1], in millionths.  The library
\* refuses a frame whose columns are not the ones it was fitted on.
predict_proba(model, x) ==
    IF x.columns # model.feature_names_in_
    THEN [ok |-> FALSE, p |-> 0]
    ELSE [ok |-> TRUE,
          p |-> Max2(0, Min2(1000000,
                   model.bias
                   + 20 * Cardinality({c \in Range(x.columns) : x.row[c].n > 0})))]

\* Line 65: int(prob >= 0.5)
DecisionThreshold == 500000

\* A variant of IsFraud with a strict comparison; C6 tells it from IsFraud.
IsFraudStrict(p) == IF p > DecisionThreshold THEN 1 ELSE 0

\* Line 65: is_fraud, on the probability in millionths.
IsFraud(p) == IF p >= DecisionThreshold THEN 1 ELSE 0

\* Line 73: round(prob, 4), in ten-thousandths; a tie goes to the even digit.
Round4(p) ==
    LET q == p \div 100
        r == p % 100
    IN IF r > 50 \/ (r = 50 /\ q % 2 = 1) THEN q + 1 ELSE q

\* A request arrives.
Receive(r, R) ==
    /\ serving
    /\ pc[r] = "idle"
    /\ \E x \in R : req' = [req EXCEPT ![r] = x]
    /\ pc' = [pc EXCEPT ![r] = "choose"]
    /\ loc' = [loc EXCEPT ![r] = NoLocal]
    /\ resp' = [resp EXCEPT ![r] = NoResponse]
    /\ UNCHANGED <<diskVars, serving, sharedVars, clock, callVars>>

\* A variant of ChooseModel that falls back to a default model; C5 tells it
\* from ChooseModel.
ChooseModelDefault(r) ==
    /\ pc[r] = "choose"
    /\ LET choice == Lower(IF req[r].model.t = "str" THEN req[r].model.s ELSE "")
       IN /\ loc' = [loc EXCEPT ![r].choice =
                        IF choice \in DOMAIN MODELS THEN choice ELSE "lr"]
          /\ pc' = [pc EXCEPT ![r] = "read"]
          /\ resp' = resp
    /\ UNCHANGED <<diskVars, serving, sharedVars, clock, callVars, req>>

\* Lines 44-47.
ChooseModel(r) ==
    /\ pc[r] = "choose"
    /\ LET choice == Lower(IF req[r].model.t = "str" THEN req[r].model.s ELSE "")
       IN IF choice \notin DOMAIN MODELS
          THEN /\ resp' = [resp EXCEPT ![r] =
                     [NoResponse EXCEPT
                        !.status = 400,
                        !.error = "Unknown model. Use ?model=lr or ?model=rf"]]
               /\ pc' = [pc EXCEPT ![r] = "done"]
               /\ loc' = loc
          ELSE /\ loc' = [loc EXCEPT ![r].choice = choice]
               /\ pc' = [pc EXCEPT ![r] = "read"]
               /\ resp' = resp
    /\ UNCHANGED <<diskVars, serving, sharedVars, clock, callVars, req>>

\* Line 50: request.get_json(silent=True) or {}
get_json(body) ==
    IF body.kind = "none" \/ (body.kind = "object" /\ body.obj = <<>>)
    THEN ObjectBody(<<>>)
    ELSE body

\* Line 57: [k for k in required if k not in data]
Missing(data) ==
    LET Absent(k) == k \notin data.names
    IN SelectSeq(required, Absent)

\* Lines 50-59.  `k not in data` raises TypeError on a number, outside the
\* try block: the framework answers 500.
ReadJson(r) ==
    /\ pc[r] = "read"
    /\ LET data == get_json(req[r].body)
       IN /\ loc' = [loc EXCEPT ![r].data = data,
                                ![r].calls = @ \cup {"get_json"}]
          /\ IF data.kind = "number"
             THEN /\ resp' = [resp EXCEPT ![r] =
                        [NoResponse EXCEPT !.status = 500,
                                           !.error = "Internal Server Error"]]
                  /\ pc' = [pc EXCEPT ![r] = "done"]
             ELSE IF Missing(data) # <<>>
             THEN /\ resp' = [resp EXCEPT ![r] =
                        [NoResponse EXCEPT !.status = 400,
                                           !.error = "Missing fields",
                                           !.missing = Missing(data)]]
                  /\ pc' = [pc EXCEPT ![r] = "done"]
             ELSE /\ pc' = [pc EXCEPT ![r] = "row"]
                  /\ resp' = resp
    /\ UNCHANGED <<diskVars, serving, sharedVars, clock, callVars, req>>

Failed(detail) ==
    [NoResponse EXCEPT !.status = 500,
                       !.error = "Failed to prepare or predict",
                       !.detail = detail]

\* Line 63, utils.py lines 18-70: the request's own row and frame.  A body
\* that is no dict has no .get: AttributeError.
BuildRow(r) ==
    /\ pc[r] = "row"
    /\ loc' = [loc EXCEPT
                 ![r].calls = @ \cup {"prepare_features_from_raw"},
                 ![r].df = IF loc[r].data.kind = "object"
                              /\ Extract(loc[r].data.obj, clock).raised = ""
                           THEN LET e == Extract(loc[r].data.obj, clock)
                                IN DataFrame(FillOneHot(FillBinary(FillNumeric(
                                       InitRow(TRAIN_COLUMNS), e), e), e),
                                       TRAIN_COLUMNS)
                           ELSE NoFrame]
    /\ IF loc[r].data.kind # "object"
       THEN /\ resp' = [resp EXCEPT ![r] = Failed("AttributeError")]
            /\ pc' = [pc EXCEPT ![r] = "done"]
       ELSE IF Extract(loc[r].data.obj, clock).raised # ""
       THEN /\ resp' = [resp EXCEPT ![r] =
                          Failed(Extract(loc[r].data.obj, clock).raised)]
            /\ pc' = [pc EXCEPT ![r] = "done"]
       ELSE /\ pc' = [pc EXCEPT ![r] = "scale"]
            /\ resp' = resp
    /\ UNCHANGED <<diskVars, serving, sharedVars, clock, callVars, req>>

\* A variant of ScaleStep that refits the shared scaler; C8 tells it from
\* ScaleStep.
ScaleStepRefit(r) ==
    /\ pc[r] = "scale"
    /\ LET out == ScaleFrame(loc[r].df, SCALER)
       IN /\ loc' = [loc EXCEPT ![r].x_new = [columns |-> out.columns, row |-> out.row]]
          /\ pc' = [pc EXCEPT ![r] = "predict"]
          /\ resp' = resp
    /\ SCALER' = [SCALER EXCEPT
                    !.N = 1,
                    !.S = [c \in DOMAIN SCALER.S |-> 8 * loc[r].df.row[c].n],
                    !.Q = [c \in DOMAIN SCALER.Q |->
                              64 * loc[r].df.row[c].n * loc[r].df.row[c].n]]
    /\ UNCHANGED <<diskVars, serving, TRAIN_COLUMNS, MODELS, clock, callVars, req>>

\* Line 63, utils.py lines 73-77.
ScaleStep(r) ==
    /\ pc[r] = "scale"
    /\ LET out == ScaleFrame(loc[r].df, SCALER)
       IN IF out.raised # ""
          THEN /\ resp' = [resp EXCEPT ![r] = Failed(out.raised)]
               /\ pc' = [pc EXCEPT ![r] = "done"]
               /\ loc' = loc
          ELSE /\ loc' = [loc EXCEPT ![r].x_new =
                             [columns |-> out.columns, row |-> out.row]]
               /\ pc' = [pc EXCEPT ![r] = "predict"]
               /\ resp' = resp
    /\ UNCHANGED <<diskVars, serving, sharedVars, clock, callVars, req>>

\* Lines 64-65.
Predict(r) ==
    /\ pc[r] = "predict"
    /\ LET out == predict_proba(MODELS[loc[r].choice], loc[r].x_new)
       IN IF ~out.ok
          THEN /\ resp' = [resp EXCEPT ![r] = Failed("ValueError")]
               /\ pc' = [pc EXCEPT ![r] = "done"]
               /\ loc' = [loc EXCEPT ![r].calls = @ \cup {"predict_proba"}]
          ELSE /\ loc' = [loc EXCEPT ![r].prob = out.p,
                                     ![r].is_fraud = IsFraud(out.p),
                                     ![r].calls = @ \cup {"predict_proba"}]
               /\ pc' = [pc EXCEPT ![r] = "respond"]
               /\ resp' = resp
    /\ UNCHANGED <<diskVars, serving, sharedVars, clock, callVars, req>>

\* Lines 70-75.
Respond(r) ==
    /\ pc[r] = "respond"
    /\ resp' = [resp EXCEPT ![r] =
                  [NoResponse EXCEPT
                     !.status = 200,
                     !.model = IF loc[r].choice = "lr" THEN "logistic_regression"
                               ELSE "random_forest",
                     !.input = loc[r].data.obj,
                     !.fraud_probability = Round4(loc[r].prob),
                     !.predicted_is_fraud = loc[r].is_fraud]]
    /\ pc' = [pc EXCEPT ![r] = "done"]
    /\ UNCHANGED <<diskVars, serving, sharedVars, clock, callVars, req, loc>>

\* The response is sent and the request's data is dropped; the worker takes
\* the next request.
Close(r) ==
    /\ pc[r] = "done"
    /\ pc' = [pc EXCEPT ![r] = "idle"]
    /\ req' = [req EXCEPT ![r] = <<>>]
    /\ loc' = [loc EXCEPT ![r] = <<>>]
    /\ resp' = [resp EXCEPT ![r] = <<>>]
    /\ UNCHANGED <<diskVars, serving, sharedVars, clock, callVars>>

Handle(r) ==
    \/ ChooseModel(r)
    \/ ReadJson(r)
    \/ BuildRow(r)
    \/ ScaleStep(r)
    \/ Predict(r)
    \/ Respond(r)
    \/ Close(r)

\* predict(), lines 41-75, run from start to end on one request.
predict(request, c) ==
    LET choice == Lower(IF request.model.t = "str" THEN request.model.s ELSE "")
        data == get_json(request.body)
        x == prepare_features_from_raw(data.obj, c, TRAIN_COLUMNS, SCALER)
        out == predict_proba(MODELS[choice], [columns |-> x.columns, row |-> x.row])
    IN IF choice \notin DOMAIN MODELS
       THEN [NoResponse EXCEPT
               !.status = 400,
               !.error = "Unknown model. Use ?model=lr or ?model=rf"]
       ELSE IF data.kind = "number"
       THEN [NoResponse EXCEPT !.status = 500, !.error = "Internal Server Error"]
       ELSE IF Missing(data) # <<>>
       THEN [NoResponse EXCEPT !.status = 400, !.error = "Missing fields",
                               !.missing = Missing(data)]
       ELSE IF data.kind # "object" THEN Failed("AttributeError")
       ELSE IF x.raised # "" THEN Failed(x.raised)
       ELSE IF ~out.ok THEN Failed("ValueError")
       ELSE [NoResponse EXCEPT
               !.status = 200,
               !.model = IF choice = "lr" THEN "logistic_regression"
                         ELSE "random_forest",
               !.input = data.obj,
               !.fraud_probability = Round4(out.p),
               !.predicted_is_fraud = IsFraud(out.p)]

\* The JSON objects of the requests: the complete record with a few fields
\* removed or changed.
RequestObjects ==
    UNION {Vary({BaseRecord}, O) : O \in SmallSubsets(Range(Fields), MaxOdd)}

Bodies ==
    {ObjectBody(o) : o \in RequestObjects}
    \cup {ObjectBody(<<>>), OtherBody("none", {}), OtherBody("number", {}),
          OtherBody("string", {}), OtherBody("string", Range(required)),
          OtherBody("list", {"amount"}), OtherBody("list", Range(required))}

Requests == {[model |-> m, body |-> b] : m \in ModelParams, b \in Bodies}

\* The requests of the interleaved runs.
FewRequests ==
    {[model |-> Str("lr"), body |-> ObjectBody(BaseRecord)],
     [model |-> Str("rf"),
      body |-> ObjectBody(With(BaseRecord, "merchant", Str("ZZZNonexistent")))],
     [model |-> Str("LR"), body |-> ObjectBody(With(BaseRecord, "amount", Num(900)))],
     [model |-> Str("lr"), body |-> ObjectBody(Without(BaseRecord, "amount"))],
     [model |-> Str("rf"),
      body |-> ObjectBody(With(BaseRecord, "timestamp", Str("not-a-date")))],
     [model |-> Str("xgboost"), body |-> ObjectBody(BaseRecord)]}

InitService ==
    /\ \E ds \in ServingDatasets : Loaded(ds, 499880, 20000)
    /\ clock = 0
    /\ record = <<>>
    /\ first_call = <<>>
    /\ last_call = <<>>
    /\ ncalls = 0
    /\ req = NoLocals
    /\ pc = IdleRequests
    /\ loc = NoLocals
    /\ resp = NoLocals

\* One request at a time, any request.
NextPredict == Receive(1, Requests) \/ Handle(1)

SpecPredict == InitService /\ [][NextPredict]_vars

\* Requests in flight together, step by step.
NextConcurrent == \E r \in 1..MaxRequests : Receive(r, FewRequests) \/ Handle(r)

SpecConcurrent == InitService /\ [][NextConcurrent]_vars

(***************************************************************************)
(* Properties of prepare_features_from_raw, under SpecAligner.             *)
(***************************************************************************)
Returned == ncalls > 0 /\ last_call.raised = ""

\* The one-hot columns the registry holds for categorical field f.
OneHotColumns(f) ==
    {c \in Range(TRAIN_COLUMNS) : \E w \in Range(Vocab[f]) : c = OneHotName(f, w)}

\* Field f of the record holds a value the registry has no column for.
UnknownValue(f) ==
    /\ f \in DOMAIN record
    /\ OneHotName(f, PyStr(record[f])) \notin Range(TRAIN_COLUMNS)

\* C1: whenever prepare_features_from_raw returns, the frame's columns are
\* the registry's columns in the registry's order, and the row has a value
\* for exactly those columns.
C1_ColumnsAreRegistry ==
    Returned =>
        /\ last_call.columns = TRAIN_COLUMNS
        /\ DOMAIN last_call.row = Range(TRAIN_COLUMNS)

C1_Witness ==
    /\ Returned
    /\ DOMAIN record = {"merchant"}
    /\ UnknownValue("merchant")

\* C2: when a categorical field holds a value the registry has no column
\* for, the call raises exactly when it would with any other value of that
\* field or without the field; when it returns, the columns are the
\* registry's, every one-hot column of the field is 0, and every other column
\* holds the value it holds with any other value of the field.
C2_UnknownCategoryDropped ==
    ncalls > 0 =>
        \A f \in Range(cat_cols) :
            UnknownValue(f) =>
                \A other \in {With(record, f, v) : v \in Range(FieldValues[f])}
                             \cup {Without(record, f)} :
                    \E t \in 0..clock :
                        LET alt == prepare_features_from_raw(other, t, TRAIN_COLUMNS, SCALER)
                        IN /\ alt.raised = last_call.raised
                           /\ last_call.raised = "" =>
                                /\ last_call.columns = TRAIN_COLUMNS
                                /\ \A c \in OneHotColumns(f) : last_call.row[c] = Zero
                                /\ \A c \in Range(TRAIN_COLUMNS) \ OneHotColumns(f) :
                                       last_call.row[c] = alt.row[c]

C2_Witness ==
    /\ Returned
    /\ UnknownValue("merchant")
    /\ OneHotColumns("merchant") # {}
    /\ "category" \in DOMAIN record
    /\ ~UnknownValue("category")

TimestampOk ==
    "timestamp" \notin DOMAIN record \/ to_datetime(record["timestamp"]).ok

\* The fields that go through float() or int().
ConvertedFields ==
    {"amount", "chargeback_history", "card_present", "cvv_present", "card_bin"}

Rejected(f) ==
    /\ f \in DOMAIN record
    /\ ~(IF f \in {"amount", "chargeback_history"}
         THEN PyFloat(record[f]) ELSE PyInt(record[f])).ok

\* C3, in the specification's words: with a parseable or absent timestamp the call never raises.
C3_OnlyTimestampRaises ==
    (ncalls > 0 /\ TimestampOk) => last_call.raised = ""

\* C3, as the code has it: the call raises exactly when the timestamp is present and
\* cannot be parsed, or a present amount, chargeback_history, card_present,
\* cvv_present or card_bin holds a value float() / int() rejects.  Absent
\* fields, and any value of the other fields, never make it raise.
C3_RaisesOnBadNumbersToo ==
    ncalls > 0 =>
        (last_call.raised # "" <=>
            (~TimestampOk \/ \E f \in ConvertedFields : Rejected(f)))

C3_Witness ==
    /\ ncalls > 0
    /\ TimestampOk
    /\ Rejected("amount")
    /\ last_call.raised = "amount"

Done(r) == pc[r] = "done"

\* The value of the model parameter ("" when it is missing).
ModelParam(r) == IF req[r].model.t = "str" THEN req[r].model.s ELSE ""

\* The required fields the request's JSON body does not hold: a body that
\* is no JSON object holds none of them.
AbsentFields(r) ==
    LET Absent(k) == req[r].body.kind # "object" \/ k \notin DOMAIN req[r].body.obj
    IN SelectSeq(required, Absent)

Computed(r) ==
    loc[r].calls \cap {"prepare_features_from_raw", "predict_proba"} # {}

\* C4: a request with a valid model parameter whose body lacks a required
\* field is answered 400 "Missing fields" with exactly the absent fields,
\* and neither the aligner nor predict_proba has been called for it.
C4_MissingFieldsRejected ==
    \A r \in 1..MaxRequests :
        (Done(r) /\ Lower(ModelParam(r)) \in {"lr", "rf"} /\ AbsentFields(r) # <<>>) =>
            /\ resp[r].status = 400
            /\ resp[r].error = "Missing fields"
            /\ resp[r].missing = AbsentFields(r)
            /\ ~Computed(r)

UnknownModelAnswer(r) ==
    /\ resp[r].status = 400
    /\ resp[r].error = "Unknown model. Use ?model=lr or ?model=rf"
    /\ loc[r].calls = {}

\* C5, in the specification's words: a model parameter that is missing or not one of lr, rf is
\* answered 400 "Unknown model", the body untouched.
C5_UnknownModelRejected ==
    \A r \in 1..MaxRequests :
        (Done(r) /\ ModelParam(r) \notin {"lr", "rf"}) => UnknownModelAnswer(r)

\* C5, as the code has it: a model parameter that is missing, or whose lower-cased value
\* is not one of lr, rf, is answered 400 "Unknown model" whatever the body,
\* and the body is not read.
C5_UnknownLoweredModelRejected ==
    \A r \in 1..MaxRequests :
        (Done(r) /\ Lower(ModelParam(r)) \notin {"lr", "rf"}) => UnknownModelAnswer(r)

C5_Witness ==
    /\ Done(1)
    /\ ModelParam(1) = "xgboost"
    /\ req[1].body = OtherBody("number", {})
    /\ resp[1].status = 400

\* C6, in the specification's words: in a 200 response predicted_is_fraud is 1 exactly when the
\* returned, rounded fraud_probability is at least 0.5.
C6_DecisionMatchesRounded ==
    \A r \in 1..MaxRequests :
        (Done(r) /\ resp[r].status = 200) =>
            /\ resp[r].predicted_is_fraud \in {0, 1}
            /\ resp[r].predicted_is_fraud = 1 <=> resp[r].fraud_probability >= 5000

\* C6, as the code has it: in a 200 response predicted_is_fraud is 1 exactly when the
\* probability before rounding is at least 0.5; so the returned
\* fraud_probability is at least 0.5 when it is 1 and at most 0.5 when it
\* is 0.
C6_DecisionMatchesUnrounded ==
    \A r \in 1..MaxRequests :
        (Done(r) /\ resp[r].status = 200) =>
            /\ resp[r].predicted_is_fraud \in {0, 1}
            /\ resp[r].predicted_is_fraud = 1 <=> loc[r].prob >= 500000
            /\ resp[r].predicted_is_fraud = 1 => resp[r].fraud_probability >= 5000
            /\ resp[r].predicted_is_fraud = 0 => resp[r].fraud_probability <= 5000

C6_Witness ==
    /\ Done(1)
    /\ resp[1].status = 200
    /\ loc[1].prob = 500000
    /\ resp[1].predicted_is_fraud = 1

\* C8: no step of a request writes the loaded registry, scaler or models,
\* and every finished request has the response predict() gives it when run
\* from start to end on its own.
C8_RequestsDoNotInterfere ==
    /\ [][UNCHANGED sharedVars]_vars
    /\ [](\A r \in 1..MaxRequests : Done(r) => resp[r] = predict(req[r], clock))

C8_Witness ==
    /\ Done(1)
    /\ resp[1].status = 200
    /\ pc[2] = "predict"
    /\ req[2] # req[1]

(***************************************************************************)
(* Properties of the cleaner, the trainer and the service start, under     *)
(* SpecPipeline.                                                           *)
(***************************************************************************)
\* The record a raw row's eleven fields make (the raw file has the card's
\* number, not its bin).
RawRecord(row) ==
    [amount |-> row.amount,
     category |-> Str(row.category),
     merchant |-> Str(row.merchant),
     timestamp |-> Str(row.timestamp),
     location |-> Str(row.location),
     device |-> Str(row.device),
     card_present |-> Num(row.card_present),
     cvv_present |-> Num(row.cvv_present),
     card_bin |-> Num(453212),
     ip_address |-> Str(row.ip_address),
     chargeback_history |-> Num(row.chargeback_history)]

\* The row of the clean dataset that raw row `row` became.
CleanRowOf(row) ==
    LET rows == drop_duplicates(CleanFields(transactions_csv))
    IN clean_csv.rows[CHOOSE j \in 1..Len(rows) : rows[j] = CleanRow(row)]

ColumnIndex(columns, c) == CHOOSE k \in 1..Len(columns) : columns[k] = c

\* The files on disk are the cleaner's output for the raw dataset on disk.
CleanedThisDataset ==
    /\ "clean_csv" \in files
    /\ clean_csv = Preprocess(transactions_csv).clean

\* C9: for every row of the cleaner's input (taken as it is in the file,
\* needing no currency or whitespace cleaning), the aligner's frame for the
\* row's raw values equals the cleaner's row on every one-hot column and on
\* the four scaled columns.
C9_TrainServeAgreement ==
    CleanedThisDataset =>
        \A i \in 1..Len(transactions_csv) :
            LET row == transactions_csv[i]
                fv == prepare_features_from_raw(RawRecord(row), 0,
                                                train_columns_json, scaler_pkl)
            IN CleanRow(row) = [row EXCEPT !.amount = Num(PyFloat(row.amount).n)]
               /\ row.amount.t = "num" =>
                   /\ fv.raised = ""
                   /\ \A c \in Range(train_columns_json) :
                         (c \in Range(numeric_cols)
                          \/ \E f \in Range(cat_cols) :
                                \E w \in Range(Vocab[f]) : c = OneHotName(f, w)) =>
                            fv.row[c] = CleanRowOf(row)[ColumnIndex(clean_csv.columns, c)]

\* C10: while the service is up, each loaded model was fitted on exactly
\* the loaded registry's columns, in order, and the registry does not hold
\* the label.
C10_ModelsFittedOnRegistry ==
    serving =>
        /\ MODELS.lr.feature_names_in_ = TRAIN_COLUMNS
        /\ MODELS.rf.feature_names_in_ = TRAIN_COLUMNS
        /\ "is_fraud" \notin Range(TRAIN_COLUMNS)
====
